---- MODULE Spec2Model ----
(***************************************************************************)
(* A model of videoconvert.py: the validation of the options, the file     *)
(* discovery, the per-file conversion / probe / thumbnail loop with its    *)
(* two failure counters, and the exit code.                                *)
(*                                                                         *)
(* Strings the program inspects character by character (file names, the    *)
(* prober's output) are sequences of one-character strings.  Paths are     *)
(* sequences of names (pathlib's parts).  Durations and timestamps are     *)
(* integers in milliseconds, fractions are pairs num/den.                  *)
(***************************************************************************)
EXTENDS Integers, Sequences, FiniteSets, TLC

VARIABLES
    pc,                  \* position in main
    env,                 \* what shutil.which and the input path report
    args,                \* argparse.Namespace
    fs,                  \* the directory tree: a set of entries
    scale_factor,        \* in hundredths (0 = 0.0)
    sources,             \* find_mp4_files' result
    conversion_failures,
    thumbnail_failures,
    index,               \* the file loop's index (1-based)
    duration,            \* ffprobe_duration_seconds' result
    thumbnail_points,    \* build_thumbnail_points' result
    thumb_pos,           \* position in thumbnail_points of the current point
    timestamp,           \* duration * fraction of the current point
    result,              \* the CompletedProcess of the last subprocess.run
    exit_code,           \* main's return value, -1 while running
    error,               \* the kind of the error printed by the validation
    running,             \* external processes started and not yet exited
    log,                 \* every external process started, in order
    printed,             \* every command line printed by --dry-run
    created,             \* directories created by mkdir
    discovered,          \* whether find_mp4_files has been called
    probe_ok,            \* per file: "none", "ok" or "fail"
    file_failures        \* per file: its share of the two counters

vars == <<pc, env, args, fs, scale_factor, sources, conversion_failures,
          thumbnail_failures, index, duration, thumbnail_points, thumb_pos,
          timestamp, result, exit_code, error, running, log, printed,
          created, discovered, probe_ok, file_failures>>

(***************************************************************************)
(* Characters and names                                                    *)
(***************************************************************************)

\* Code points of the characters that occur in the modelled names.
Ord(c) ==
    CASE c = "." -> 46 [] c = "2" -> 50 [] c = "4" -> 52
      [] c = "B" -> 66 [] c = "M" -> 77 [] c = "P" -> 80
      [] c = "a" -> 97 [] c = "b" -> 98 [] c = "c" -> 99
      [] c = "d" -> 100 [] c = "e" -> 101 [] c = "i" -> 105
      [] c = "k" -> 107 [] c = "l" -> 108 [] c = "m" -> 109
      [] c = "o" -> 111 [] c = "p" -> 112 [] c = "t" -> 116
      [] c = "x" -> 120 [] c = "z" -> 122

\* str.lower on one character: A..Z are 65..90, a..z are 32 above.
LowerChar(c) ==
    CASE c = "B" -> "b" [] c = "M" -> "m" [] c = "P" -> "p" [] OTHER -> c

\* A comparison of the suffix as written: no lower-casing.
LowerAsWritten(s) == s

\* str.lower
Lower(s) == [k \in 1..Len(s) |-> LowerChar(s[k])]

\* str.rfind("."): the last index of a dot, 0 when there is none.
RFindDot(s) ==
    LET dots == {k \in 1..Len(s) : s[k] = "."}
    IN  IF dots = {} THEN 0 ELSE CHOOSE k \in dots : \A j \in dots : j <= k

\* PurePath.suffix: from the last dot of the name, unless the dot is the
\* first or the last character.
Suffix(path) ==
    LET name == path[Len(path)]
        i == RFindDot(name)
    IN  IF 1 < i /\ i < Len(name) THEN SubSeq(name, i, Len(name)) ELSE <<>>

\* str.__lt__: lexicographic by code point.
RECURSIVE StrLess(_, _)
StrLess(s, t) ==
    IF t = <<>> THEN FALSE
    ELSE IF s = <<>> THEN TRUE
    ELSE IF s[1] # t[1] THEN Ord(s[1]) < Ord(t[1])
    ELSE StrLess(Tail(s), Tail(t))

\* PurePath.__lt__: lexicographic by parts.
RECURSIVE PathLess(_, _)
PathLess(p, q) ==
    IF q = <<>> THEN FALSE
    ELSE IF p = <<>> THEN TRUE
    ELSE IF p[1] # q[1] THEN StrLess(p[1], q[1])
    ELSE PathLess(Tail(p), Tail(q))

\* sorted(files): the elements of a set of paths in ascending order.
RECURSIVE Sorted(_)
Sorted(S) ==
    IF S = {} THEN <<>>
    ELSE LET least == CHOOSE p \in S : \A q \in S \ {p} : PathLess(p, q)
         IN  <<least>> \o Sorted(S \ {least})

(***************************************************************************)
(* The directory tree                                                      *)
(***************************************************************************)

DOT_MP4 == <<".", "m", "p", "4">>

InputDir   == << <<"i">> >>
NestedOut  == << <<"i">>, <<"o">> >>
OutsideOut == << <<"x">> >>

File(path)         == [path |-> path, kind |-> "file", target |-> <<>>]
Dir(path)          == [path |-> path, kind |-> "dir",  target |-> <<>>]
Link(path, target) == [path |-> path, kind |-> "link", target |-> target]

P_a  == InputDir \o << <<"a", ".", "m", "p", "4">> >>
P_B  == InputDir \o << <<"B", ".", "M", "P", "4">> >>
P_c  == InputDir \o << <<"c", ".", "t", "x", "t">> >>
P_e  == InputDir \o << <<"e", ".", "m", "p", "4">> >>
P_h  == InputDir \o << <<".", "m", "p", "4">> >>
P_oa == NestedOut \o << <<"a", ".", "m", "p", "4">> >>
P_ok == NestedOut \o << <<"k", ".", "m", "p", "4">> >>
P_od == InputDir \o << <<"o", "2">>, <<"d", ".", "M", "p", "4">> >>
P_l  == InputDir \o << <<"l", ".", "m", "p", "4">> >>

\* Every entry a modelled tree may hold under the input directory.
Universe ==
    { File(P_a), File(P_B), File(P_c), Dir(P_e), File(P_h), File(P_oa),
      File(P_od), Link(P_l, P_oa), Link(P_ok, P_a) }

\* A tree holds the directories its entries lie in.
WithParents(S) ==
    S \cup { Dir(SubSeq(e.path, 1, k)) :
                e \in { x \in S : Len(x.path) > Len(InputDir) + 1 },
                k \in {Len(InputDir) + 1} }

Trees == { WithParents(S) : S \in SUBSET Universe }

\* Path.is_relative_to / relative_to: base is a prefix of path, part by part.
is_relative_to(path, base) ==
    /\ Len(base) <= Len(path)
    /\ SubSeq(path, 1, Len(base)) = base

\* Path.is_file: a regular file, or a symbolic link to one.
is_file(tree, e) ==
    \/ e.kind = "file"
    \/ /\ e.kind = "link"
       /\ \E t \in tree : t.path = e.target /\ t.kind = "file"

\* Path.resolve: the path with symbolic links followed.
resolve(tree, path) ==
    IF \E e \in tree : e.path = path /\ e.kind = "link"
    THEN (CHOOSE e \in tree : e.path = path /\ e.kind = "link").target
    ELSE path

\* input_dir.glob("*") / input_dir.rglob("*")
glob_iter(tree, input_dir, recursive) ==
    { e \in tree :
        /\ is_relative_to(e.path, input_dir)
        /\ IF recursive THEN Len(e.path) > Len(input_dir)
                        ELSE Len(e.path) = Len(input_dir) + 1 }

find_mp4_files(tree, input_dir, output_dir, recursive) ==
    LET files ==
          { candidate \in glob_iter(tree, input_dir, recursive) :
              /\ is_file(tree, candidate)
              /\ Lower(Suffix(candidate.path)) = DOT_MP4
              /\ ~is_relative_to(resolve(tree, candidate.path),
                                 resolve(tree, output_dir)) }
    IN  Sorted({ f.path : f \in files })

(***************************************************************************)
(* Floating point values, the prober's output                              *)
(***************************************************************************)

\* A float: None, NaN, or a number held in milliseconds.
FNone    == [kind |-> "none", ms |-> 0]
FNaN     == [kind |-> "nan",  ms |-> 0]
FNum(ms) == [kind |-> "num",  ms |-> ms]

IsSpace(c) == c \in {" ", "\n"}
IsDigit(c) == c \in {"0", "1", "2", "3", "4", "5", "6", "7", "8", "9"}
DigitVal(c) ==
    CASE c = "0" -> 0 [] c = "1" -> 1 [] c = "2" -> 2 [] c = "3" -> 3
      [] c = "4" -> 4 [] c = "5" -> 5 [] c = "6" -> 6 [] c = "7" -> 7
      [] c = "8" -> 8 [] c = "9" -> 9

\* str.strip
RECURSIVE LStrip(_)
LStrip(s) == IF s # <<>> /\ IsSpace(s[1]) THEN LStrip(Tail(s)) ELSE s
RECURSIVE RStrip(_)
RStrip(s) ==
    IF s # <<>> /\ IsSpace(s[Len(s)]) THEN RStrip(SubSeq(s, 1, Len(s) - 1)) ELSE s
Strip(s) == RStrip(LStrip(s))

\* The value of a string of digits.
RECURSIVE Digits(_)
Digits(s) ==
    IF s = <<>> THEN 0 ELSE 10 * Digits(SubSeq(s, 1, Len(s) - 1)) + DigitVal(s[Len(s)])

\* float(value) for the texts a prober prints: an optional sign, digits, an
\* optional point and digits (read to the millisecond), or "nan"; anything
\* else raises ValueError, which the caller turns into None.
ParseFloat(value) ==
    LET neg   == value # <<>> /\ value[1] = "-"
        body  == IF neg THEN Tail(value) ELSE value
        dot   == RFindDot(body)
        whole == IF dot = 0 THEN body ELSE SubSeq(body, 1, dot - 1)
        frac  == IF dot = 0 THEN <<>> ELSE SubSeq(body, dot + 1, Len(body))
        milli == [k \in 1..3 |-> IF k <= Len(frac) THEN frac[k] ELSE "0"]
        wellFormed ==
            /\ whole # <<>>
            /\ \A k \in 1..Len(whole) : IsDigit(whole[k])
            /\ \A k \in 1..Len(frac) : IsDigit(frac[k])
        magnitude == 1000 * Digits(whole) + Digits(milli)
    IN  IF value = <<"n", "a", "n">> THEN FNaN
        ELSE IF wellFormed THEN FNum(IF neg THEN 0 - magnitude ELSE magnitude)
        ELSE FNone

\* The prober's output parsed whatever its return code.
ffprobe_duration_ignoring_returncode(res) ==
    LET value == Strip(res.stdout)
    IN  IF value = <<>> THEN FNone ELSE ParseFloat(value)

\* ffprobe_duration_seconds, given the prober's CompletedProcess.
ffprobe_duration_seconds(res) ==
    IF res.returncode # 0 THEN FNone
    ELSE LET value == Strip(res.stdout)
         IN  IF value = <<>> THEN FNone ELSE ParseFloat(value)

\* duration is None or duration <= 0
DurationUnavailable(d) == d.kind = "none" \/ (d.kind = "num" /\ d.ms <= 0)

(***************************************************************************)
(* Thumbnail points and timestamps                                         *)
(***************************************************************************)

\* Points spaced by index / count: the last one is the end of the video.
build_thumbnail_points_to_end(count) ==
    [k \in 1..count |-> [index |-> k, num |-> k, den |-> count]]

\* build_thumbnail_points: (index, index / (count + 1)) for index in 1..count.
build_thumbnail_points(count) ==
    [k \in 1..count |-> [index |-> k, num |-> k, den |-> count + 1]]

\* duration * fraction, as thumbnail_command formats it (.3f: to the nearest
\* millisecond).
Timestamp(d, point) ==
    IF d.kind = "nan" THEN FNaN
    ELSE FNum((2 * d.ms * point.num + point.den) \div (2 * point.den))

(***************************************************************************)
(* Options and their validation                                            *)
(***************************************************************************)

MaxCount == 2

SmallerValues == {0, 1, 99, 100}
CountValues   == 0..MaxCount
ReturnCodes   == {0, 1}
Stderrs       == {"", "error text"}
ProbeOutputs ==
    { <<>>, <<"\n">>, <<"N", "/", "A", "\n">>, <<"n", "a", "n", "\n">>,
      <<"0", ".", "0", "\n">>, <<"-", "1", ".", "5", "\n">>,
      <<"1", "0", "0", ".", "0", "0", "0", "0", "0", "0", "\n">> }

\* The trees the whole program is run on.
RunTrees ==
    { WithParents({File(P_c)}),
      WithParents({File(P_a), File(P_oa)}),
      WithParents({File(P_a), File(P_B), File(P_oa)}) }

do_thumbnails(a)       == a.thumbnails \/ a.thumbnails_only
do_video_conversion(a) == ~a.thumbnails_only

\* The upper limit off by one: 100 passes.
SmallerInvalidAbove100(p) == p <= 0 \/ p > 100

\* args.smaller <= 0 or args.smaller >= 100
SmallerInvalid(p) == p <= 0 \/ p >= 100

\* The first validation of main that fails, "" when none does.
ConfigError(a, e) ==
    IF ~e.ffmpeg THEN "ffmpeg missing"
    ELSE IF do_thumbnails(a) /\ ~e.ffprobe THEN "ffprobe missing"
    ELSE IF do_thumbnails(a) /\ a.thumbnail_count < 1 THEN "thumbnail count"
    ELSE IF e.input # "dir" THEN "input directory"
    ELSE IF do_video_conversion(a) /\ SmallerInvalid(a.smaller) THEN "smaller"
    ELSE IF do_video_conversion(a) /\ 100 - a.smaller <= 0 THEN "scale factor"
    ELSE ""

\* A run that finds no file ended as a configuration error.
NoFilesExitAsError(found) == IF found = <<>> THEN 2 ELSE -1

\* if not sources: return 0; -1 when the run goes on.
NoFilesExit(found) == IF found = <<>> THEN 0 ELSE -1

\* if args.dry_run, at the conversion command
PrintOnlyConvert(a) == a.dry_run

\* --dry-run honoured only when a conversion is requested.
PrintOnlyThumbWithConversion(a) == a.dry_run /\ ~a.thumbnails_only

\* if args.dry_run, at the thumbnail command
PrintOnlyThumb(a) == a.dry_run

\* The process started and not waited for.
NotWaitedFor(procs, pid) == procs

\* subprocess.run returns once the process it started has exited.
Completed(procs, pid) == procs \ {pid}

\* A failed thumbnail command tried again.
RetryPos(pos, res) == IF res.returncode # 0 THEN pos ELSE pos + 1

\* for thumb_index, fraction in thumbnail_points: the position after one
\* thumbnail command has returned res.
NextPos(pos, res) == pos + 1

\* A single failure tolerated.
FinalCodeAboveOne(total_failures) == IF total_failures > 1 THEN 1 ELSE 0

\* 1 if total_failures else 0
FinalCode(total_failures) == IF total_failures # 0 THEN 1 ELSE 0

\* Captured error output counted as a failure too.
ConvFailedOnStderr(res) == res.returncode # 0 \/ res.stderr # ""

\* result.returncode != 0
ConvFailed(res) == res.returncode # 0

\* thumb_result.returncode != 0
ThumbFailed(res) == res.returncode # 0

NoResult == [kind |-> "none", returncode |-> 0, stderr |-> "", stdout |-> <<>>]

\* source.relative_to(input_dir).parent
RelParent(source) == SubSeq(source, Len(InputDir) + 1, Len(source) - 1)

ThumbnailsDir(a) == a.output_dir \o << <<"thumbnails">> >>

Event(file, kind, idx) == [file |-> file, kind |-> kind, idx |-> idx]

(***************************************************************************)
(* main                                                                    *)
(***************************************************************************)

Idle ==
    /\ scale_factor = 0
    /\ sources = <<>>
    /\ conversion_failures = 0
    /\ thumbnail_failures = 0
    /\ index = 0
    /\ duration = FNone
    /\ thumbnail_points = <<>>
    /\ thumb_pos = 0
    /\ timestamp = FNone
    /\ result = NoResult
    /\ exit_code = -1
    /\ error = ""
    /\ running = {}
    /\ log = <<>>
    /\ printed = <<>>
    /\ created = {}
    /\ discovered = FALSE
    /\ probe_ok = <<>>
    /\ file_failures = <<>>

Init ==
    /\ pc = "resolve"
    /\ env \in [ffmpeg : BOOLEAN, ffprobe : BOOLEAN,
                input : {"dir", "file", "missing"}]
    /\ args \in [smaller : SmallerValues, thumbnails : BOOLEAN,
                 thumbnails_only : BOOLEAN, thumbnail_count : CountValues,
                 dry_run : BOOLEAN, recursive : BOOLEAN,
                 output_dir : {NestedOut, OutsideOut}]
    /\ fs \in RunTrees
    /\ Idle

\* Lines 232-267: the validations, in order; the first that fails ends the
\* run with exit code 2.
Resolve ==
    /\ pc = "resolve"
    /\ error' = ConfigError(args, env)
    /\ IF error' # ""
       THEN /\ exit_code' = 2
            /\ pc' = "exit"
            /\ UNCHANGED scale_factor
       ELSE /\ scale_factor' =
                 IF do_video_conversion(args) THEN 100 - args.smaller ELSE 0
            /\ pc' = "discover"
            /\ UNCHANGED exit_code
    /\ UNCHANGED <<env, args, fs, sources, conversion_failures,
                   thumbnail_failures, index, duration, thumbnail_points,
                   thumb_pos, timestamp, result, running, log, printed,
                   created, discovered, probe_ok, file_failures>>

\* Lines 269-272.
Discover ==
    /\ pc = "discover"
    /\ sources' = find_mp4_files(fs, InputDir, args.output_dir, args.recursive)
    /\ discovered' = TRUE
    /\ exit_code' = NoFilesExit(sources')
    /\ pc' = IF exit_code' = -1 THEN "prepare" ELSE "exit"
    /\ UNCHANGED <<env, args, fs, scale_factor, conversion_failures,
                   thumbnail_failures, index, duration, thumbnail_points,
                   thumb_pos, timestamp, result, error, running, log, printed,
                   created, probe_ok, file_failures>>

\* Lines 274-291: the output directories, the counters, the loop's start.
Prepare ==
    /\ pc = "prepare"
    /\ created' = created \cup {args.output_dir}
                    \cup (IF do_thumbnails(args) THEN {ThumbnailsDir(args)} ELSE {})
    /\ conversion_failures' = 0
    /\ thumbnail_failures' = 0
    /\ index' = 1
    /\ probe_ok' = [f \in 1..Len(sources) |-> "none"]
    /\ file_failures' = [f \in 1..Len(sources) |-> [conv |-> 0, thumb |-> 0]]
    /\ pc' = "file"
    /\ UNCHANGED <<env, args, fs, scale_factor, sources, duration,
                   thumbnail_points, thumb_pos, timestamp, result, exit_code,
                   error, running, log, printed, discovered>>

\* Line 293: the loop takes the next source, if any is left.
NextFile ==
    /\ pc = "file"
    /\ index <= Len(sources)
    /\ pc' = IF do_video_conversion(args) THEN "convert" ELSE "probe"
    /\ UNCHANGED <<env, args, fs, scale_factor, sources, conversion_failures,
                   thumbnail_failures, index, duration, thumbnail_points,
                   thumb_pos, timestamp, result, exit_code, error, running,
                   log, printed, created, discovered, probe_ok, file_failures>>

\* Lines 297-315: the target directory and the conversion command, printed
\* under --dry-run and started otherwise.
Convert ==
    /\ pc = "convert"
    /\ created' = created \cup {args.output_dir \o RelParent(sources[index])}
    /\ IF PrintOnlyConvert(args)
       THEN /\ printed' = Append(printed, Event(index, "convert", 0))
            /\ IF do_thumbnails(args)
               THEN pc' = "probe" /\ UNCHANGED index
               ELSE pc' = "file" /\ index' = index + 1
            /\ UNCHANGED <<log, running>>
       ELSE /\ log' = Append(log, Event(index, "convert", 0))
            /\ running' = running \cup {Len(log')}
            /\ pc' = "convert_wait"
            /\ UNCHANGED <<printed, index>>
    /\ UNCHANGED <<env, args, fs, scale_factor, sources, conversion_failures,
                   thumbnail_failures, duration, thumbnail_points, thumb_pos,
                   timestamp, result, exit_code, error, discovered, probe_ok,
                   file_failures>>

\* Lines 316-326: subprocess.run returns; a failed conversion is counted.
ConvertExit ==
    /\ pc = "convert_wait"
    /\ \E rc \in ReturnCodes, err \in Stderrs :
         result' = [kind |-> "convert", returncode |-> rc, stderr |-> err,
                    stdout |-> <<>>]
    /\ running' = Completed(running, Len(log))
    /\ IF ConvFailed(result')
       THEN /\ conversion_failures' = conversion_failures + 1
            /\ file_failures' =
                 [file_failures EXCEPT ![index].conv = @ + 1]
       ELSE UNCHANGED <<conversion_failures, file_failures>>
    /\ IF do_thumbnails(args)
       THEN pc' = "probe" /\ UNCHANGED index
       ELSE pc' = "file" /\ index' = index + 1
    /\ UNCHANGED <<env, args, fs, scale_factor, sources, thumbnail_failures,
                   duration, thumbnail_points, thumb_pos, timestamp, exit_code,
                   error, log, printed, created, discovered, probe_ok>>

\* Lines 328-329, 175-190: the prober is started; --dry-run is not consulted.
Probe ==
    /\ pc = "probe"
    /\ log' = Append(log, Event(index, "probe", 0))
    /\ running' = running \cup {Len(log')}
    /\ pc' = "probe_wait"
    /\ UNCHANGED <<env, args, fs, scale_factor, sources, conversion_failures,
                   thumbnail_failures, index, duration, thumbnail_points,
                   thumb_pos, timestamp, result, exit_code, error, printed,
                   created, discovered, probe_ok, file_failures>>

\* Lines 191-199, 330-337: the prober returns; without a duration the file's
\* thumbnails are one failure and the loop continues with the next file.
ProbeExit ==
    /\ pc = "probe_wait"
    /\ \E rc \in ReturnCodes, out \in ProbeOutputs :
         result' = [kind |-> "probe", returncode |-> rc, stderr |-> "",
                    stdout |-> out]
    /\ running' = Completed(running, Len(log))
    /\ duration' = ffprobe_duration_seconds(result')
    /\ IF DurationUnavailable(duration')
       THEN /\ thumbnail_failures' = thumbnail_failures + 1
            /\ file_failures' = [file_failures EXCEPT ![index].thumb = @ + 1]
            /\ probe_ok' = [probe_ok EXCEPT ![index] = "fail"]
            /\ pc' = "file"
            /\ index' = index + 1
            /\ UNCHANGED <<created, thumbnail_points, thumb_pos>>
       ELSE /\ probe_ok' = [probe_ok EXCEPT ![index] = "ok"]
            /\ created' = created \cup
                 {ThumbnailsDir(args) \o RelParent(sources[index])}
            /\ thumbnail_points' = build_thumbnail_points(args.thumbnail_count)
            /\ thumb_pos' = 1
            /\ pc' = "thumb"
            /\ UNCHANGED <<thumbnail_failures, file_failures, index>>
    /\ UNCHANGED <<env, args, fs, scale_factor, sources, conversion_failures,
                   timestamp, exit_code, error, log, printed, discovered>>

\* Lines 339-356: the next thumbnail point: its timestamp and command,
\* printed under --dry-run and started otherwise.
Thumb ==
    /\ pc = "thumb"
    /\ thumb_pos <= Len(thumbnail_points)
    /\ timestamp' = Timestamp(duration, thumbnail_points[thumb_pos])
    /\ IF PrintOnlyThumb(args)
       THEN /\ printed' = Append(printed,
                 Event(index, "thumb", thumbnail_points[thumb_pos].index))
            /\ thumb_pos' = thumb_pos + 1
            /\ UNCHANGED <<log, running, pc>>
       ELSE /\ log' = Append(log,
                 Event(index, "thumb", thumbnail_points[thumb_pos].index))
            /\ running' = running \cup {Len(log')}
            /\ pc' = "thumb_wait"
            /\ UNCHANGED <<printed, thumb_pos>>
    /\ UNCHANGED <<env, args, fs, scale_factor, sources, conversion_failures,
                   thumbnail_failures, index, duration, thumbnail_points,
                   result, exit_code, error, created, discovered, probe_ok,
                   file_failures>>

\* Lines 357-371: subprocess.run returns; a failed thumbnail is counted.
ThumbExit ==
    /\ pc = "thumb_wait"
    /\ \E rc \in ReturnCodes, err \in Stderrs :
         result' = [kind |-> "thumb", returncode |-> rc, stderr |-> err,
                    stdout |-> <<>>]
    /\ running' = Completed(running, Len(log))
    /\ IF ThumbFailed(result')
       THEN /\ thumbnail_failures' = thumbnail_failures + 1
            /\ file_failures' = [file_failures EXCEPT ![index].thumb = @ + 1]
       ELSE UNCHANGED <<thumbnail_failures, file_failures>>
    /\ thumb_pos' = NextPos(thumb_pos, result')
    /\ pc' = "thumb"
    /\ UNCHANGED <<env, args, fs, scale_factor, sources, conversion_failures,
                   index, duration, thumbnail_points, timestamp, exit_code,
                   error, log, printed, created, discovered, probe_ok>>

\* Line 339: the thumbnail points are exhausted; the file is done.
ThumbsDone ==
    /\ pc = "thumb"
    /\ thumb_pos > Len(thumbnail_points)
    /\ pc' = "file"
    /\ index' = index + 1
    /\ UNCHANGED <<env, args, fs, scale_factor, sources, conversion_failures,
                   thumbnail_failures, duration, thumbnail_points, thumb_pos,
                   timestamp, result, exit_code, error, running, log, printed,
                   created, discovered, probe_ok, file_failures>>

\* Lines 373-379: the sources are exhausted; the counters decide the code.
Finish ==
    /\ pc = "file"
    /\ index > Len(sources)
    /\ exit_code' = FinalCode(conversion_failures + thumbnail_failures)
    /\ pc' = "exit"
    /\ UNCHANGED <<env, args, fs, scale_factor, sources, conversion_failures,
                   thumbnail_failures, index, duration, thumbnail_points,
                   thumb_pos, timestamp, result, error, running, log, printed,
                   created, discovered, probe_ok, file_failures>>

Next ==
    \/ Resolve
    \/ Discover
    \/ Prepare
    \/ NextFile
    \/ Convert
    \/ ConvertExit
    \/ Probe
    \/ ProbeExit
    \/ Thumb
    \/ ThumbExit
    \/ ThumbsDone
    \/ Finish

Spec == Init /\ [][Next]_vars

(***************************************************************************)
(* find_mp4_files alone, over every modelled tree                          *)
(***************************************************************************)

DefaultArgs ==
    [smaller |-> 50, thumbnails |-> FALSE, thumbnails_only |-> FALSE,
     thumbnail_count |-> 10, dry_run |-> FALSE, recursive |-> FALSE,
     output_dir |-> NestedOut]

DefaultEnv == [ffmpeg |-> TRUE, ffprobe |-> TRUE, input |-> "dir"]

InitFind ==
    /\ pc = "find"
    /\ env = DefaultEnv
    /\ \E r \in BOOLEAN, o \in {NestedOut, OutsideOut, InputDir} :
         args = [DefaultArgs EXCEPT !.recursive = r, !.output_dir = o]
    /\ fs \in Trees
    /\ Idle

FindFiles ==
    /\ pc = "find"
    /\ sources' = find_mp4_files(fs, InputDir, args.output_dir, args.recursive)
    /\ discovered' = TRUE
    /\ pc' = "found"
    /\ UNCHANGED <<env, args, fs, scale_factor, conversion_failures,
                   thumbnail_failures, index, duration, thumbnail_points,
                   thumb_pos, timestamp, result, exit_code, error, running,
                   log, printed, created, probe_ok, file_failures>>

NextFind == FindFiles

SpecFind == InitFind /\ [][NextFind]_vars

(***************************************************************************)
(* build_thumbnail_points and the timestamps alone                         *)
(***************************************************************************)

MaxPoints == 8

Durations == {1, 7250, 100000, 3600000}

InitPoints ==
    /\ pc = "points"
    /\ env = DefaultEnv
    /\ \E n \in 1..MaxPoints :
         args = [DefaultArgs EXCEPT !.thumbnails = TRUE, !.thumbnail_count = n]
    /\ fs = {}
    /\ scale_factor = 0
    /\ sources = <<>>
    /\ conversion_failures = 0
    /\ thumbnail_failures = 0
    /\ index = 0
    /\ \E d \in Durations : duration = FNum(d)
    /\ thumbnail_points = <<>>
    /\ thumb_pos = 0
    /\ timestamp = FNone
    /\ result = NoResult
    /\ exit_code = -1
    /\ error = ""
    /\ running = {}
    /\ log = <<>>
    /\ printed = <<>>
    /\ created = {}
    /\ discovered = FALSE
    /\ probe_ok = <<>>
    /\ file_failures = <<>>

\* Line 337.
BuildPoints ==
    /\ pc = "points"
    /\ thumbnail_points' = build_thumbnail_points(args.thumbnail_count)
    /\ thumb_pos' = 1
    /\ pc' = "stamp"
    /\ UNCHANGED <<env, args, fs, scale_factor, sources, conversion_failures,
                   thumbnail_failures, index, duration, timestamp, result,
                   exit_code, error, running, log, printed, created,
                   discovered, probe_ok, file_failures>>

\* Lines 339-340.
Stamp ==
    /\ pc = "stamp"
    /\ thumb_pos <= Len(thumbnail_points)
    /\ timestamp' = Timestamp(duration, thumbnail_points[thumb_pos])
    /\ thumb_pos' = thumb_pos + 1
    /\ UNCHANGED <<pc, env, args, fs, scale_factor, sources,
                   conversion_failures, thumbnail_failures, index, duration,
                   thumbnail_points, result, exit_code, error, running, log,
                   printed, created, discovered, probe_ok, file_failures>>

NextPoints == BuildPoints \/ Stamp

SpecPoints == InitPoints /\ [][NextPoints]_vars

(***************************************************************************)
(* Properties                                                              *)
(***************************************************************************)

ThumbsRequested == args.thumbnails \/ args.thumbnails_only
ConversionRequested == ~args.thumbnails_only

\* How many times an event occurs in a sequence of events.
CountEvents(seq, file, kind, idx) ==
    Cardinality({k \in 1..Len(seq) : seq[k] = Event(file, kind, idx)})

RECURSIVE ThumbShares(_)
ThumbShares(n) == IF n = 0 THEN 0 ELSE ThumbShares(n - 1) + file_failures[n].thumb

RECURSIVE ConvShares(_)
ConvShares(n) == IF n = 0 THEN 0 ELSE ConvShares(n - 1) + file_failures[n].conv

AnyFailure ==
    \E f \in DOMAIN file_failures :
        file_failures[f].conv + file_failures[f].thumb > 0

ConfigProblem ==
    \/ ~env.ffmpeg
    \/ ThumbsRequested /\ ~env.ffprobe
    \/ ThumbsRequested /\ args.thumbnail_count < 1
    \/ env.input # "dir"
    \/ ConversionRequested /\ (args.smaller < 1 \/ args.smaller > 99)

\* C1: main returns 2 exactly when a validation detected a configuration
\* error, otherwise 1 exactly when some conversion or thumbnail operation of
\* some file failed, otherwise 0 (no file found, or no failure); it returns
\* nothing else.
C1_ExitCode ==
    /\ pc # "exit" => exit_code = -1
    /\ pc = "exit" =>
         /\ exit_code \in {0, 1, 2}
         /\ (exit_code = 2) = (error # "")
         /\ (error # "") = ConfigProblem
         /\ (exit_code = 1) = (error = "" /\ AnyFailure)
         /\ (exit_code = 0) = (error = "" /\ (sources = <<>> \/ ~AnyFailure))
         /\ conversion_failures = ConvShares(Len(file_failures))
         /\ thumbnail_failures = ThumbShares(Len(file_failures))

C1_Witness ==
    /\ pc = "exit"
    /\ exit_code = 1
    /\ conversion_failures = 0
    /\ thumbnail_failures = 1
    /\ Len(sources) = 2

\* C2: a run that exits 2 has discovered no file, created no directory, and
\* started or printed no conversion, probe or thumbnail command.
C2_NoPartialWork ==
    exit_code = 2 =>
        /\ ~discovered
        /\ sources = <<>>
        /\ created = {}
        /\ log = <<>>
        /\ printed = <<>>
        /\ running = {}

C2_Witness ==
    /\ exit_code = 2
    /\ error = "smaller"
    /\ File(P_a) \in fs
    /\ ThumbsRequested

\* C3 as stated: under --dry-run no external process is started at all.
C3_DryRunStartsNothing == args.dry_run => log = <<>>

\* C3, amended: under --dry-run no encoder (ffmpeg) process is started, for
\* a conversion or for a thumbnail: each such command is only printed, once;
\* the prober (ffprobe) is still started, once per file, when thumbnails are
\* requested.
C3_DryRunNoEncoder ==
    args.dry_run =>
        /\ \A k \in 1..Len(log) : log[k].kind = "probe"
        /\ (pc = "exit" /\ error = "") =>
             \A f \in 1..Len(sources) :
                /\ CountEvents(printed, f, "convert", 0) =
                      (IF ConversionRequested THEN 1 ELSE 0)
                /\ CountEvents(log, f, "probe", 0) =
                      (IF ThumbsRequested THEN 1 ELSE 0)
                /\ \A i \in 1..args.thumbnail_count :
                      CountEvents(printed, f, "thumb", i) =
                         (IF ThumbsRequested /\ probe_ok[f] = "ok" THEN 1 ELSE 0)

C3_Witness ==
    /\ args.dry_run
    /\ args.thumbnails_only
    /\ pc = "exit"
    /\ Len(log) = 2
    /\ Len(printed) = 2 * args.thumbnail_count
    /\ args.thumbnail_count = 2

SmallerOutOfRange == args.smaller <= 0 \/ args.smaller >= 100

\* C4 as stated: a --smaller outside 1..99 ends every run with exit code 2
\* and no file processed, whatever the other options.
C4_AlwaysRejected ==
    (pc = "exit" /\ SmallerOutOfRange) =>
        /\ exit_code = 2
        /\ ~discovered
        /\ log = <<>>
        /\ printed = <<>>

\* C4, amended: a --smaller outside 1..99 ends with exit code 2 and no file
\* processed every run in which the conversion is requested (no
\* --thumbnails-only); it is the error reported when no earlier validation
\* fails.
C4_RejectedWhenConverting ==
    (pc = "exit" /\ SmallerOutOfRange /\ ConversionRequested) =>
        /\ exit_code = 2
        /\ ~discovered
        /\ log = <<>>
        /\ printed = <<>>
        /\ created = {}
        /\ error \in {"ffmpeg missing", "ffprobe missing", "thumbnail count",
                      "input directory", "smaller"}
        /\ (env.ffmpeg /\ env.ffprobe /\ env.input = "dir"
               /\ args.thumbnail_count >= 1) => error = "smaller"

C4_Witness ==
    /\ pc = "exit"
    /\ args.smaller = 100
    /\ args.thumbnails
    /\ ConversionRequested
    /\ error = "smaller"
    /\ File(P_a) \in fs

\* The text float() accepts among the modelled outputs: digits with an
\* optional sign and point, or nan.
NumericText(text) ==
    \/ text = <<"n", "a", "n">>
    \/ \A k \in 1..Len(text) : IsDigit(text[k]) \/ text[k] \in {"-", "."}

\* The probe failed: a non-zero exit, an empty or a non-numeric output.
ProbeFailed(res) ==
    \/ res.returncode # 0
    \/ Strip(res.stdout) = <<>>
    \/ ~NumericText(Strip(res.stdout))

\* C5: when the probe of a file fails (non-zero exit, empty or non-numeric
\* output), the file adds exactly 1 to the thumbnail failure counter, no
\* thumbnail command of that file is printed or started, and every other
\* file of the list is still processed.
C5_ProbeFailure ==
    /\ (result.kind = "probe" /\ ProbeFailed(result)) =>
          /\ pc \notin {"thumb", "thumb_wait"}
          /\ index > 1
          /\ probe_ok[index - 1] = "fail"
    /\ \A f \in DOMAIN probe_ok :
          probe_ok[f] = "fail" =>
             /\ file_failures[f].thumb = 1
             /\ \A k \in 1..Len(log) :
                   ~(log[k].file = f /\ log[k].kind = "thumb")
             /\ \A k \in 1..Len(printed) :
                   ~(printed[k].file = f /\ printed[k].kind = "thumb")
    /\ thumbnail_failures = ThumbShares(Len(file_failures))
    /\ (pc = "exit" /\ error = "" /\ sources # <<>> /\ ThumbsRequested) =>
          \A f \in 1..Len(sources) :
             /\ probe_ok[f] # "none"
             /\ CountEvents(log, f, "probe", 0) = 1

C5_Witness ==
    /\ pc = "exit"
    /\ Len(sources) = 3
    /\ probe_ok = <<"ok", "fail", "ok">>
    /\ thumbnail_failures = 1
    /\ CountEvents(log, 3, "thumb", args.thumbnail_count) = 1
    /\ args.thumbnail_count = 2

\* C6 as stated: a conversion or thumbnail command that returns a non-zero
\* exit code or error output adds one to its failure counter.
C6_ErrorOutputCounted ==
    [][ /\ pc = "convert_wait" =>
             ((result'.returncode # 0 \/ result'.stderr # "") =>
                 conversion_failures' = conversion_failures + 1)
        /\ pc = "thumb_wait" =>
             ((result'.returncode # 0 \/ result'.stderr # "") =>
                 thumbnail_failures' = thumbnail_failures + 1) ]_vars

\* C6, amended: a conversion or thumbnail command that returns a non-zero
\* exit code adds one to its own failure counter and leaves the other alone;
\* one that returns 0 leaves both alone, with or without error output; in
\* either case the run goes on with the next unit of work: the file's
\* probe, the next thumbnail point, or the next file.
C6_ExitCodeCounted ==
    [][ /\ pc = "convert_wait" =>
             /\ conversion_failures' =
                   conversion_failures + (IF result'.returncode # 0 THEN 1 ELSE 0)
             /\ thumbnail_failures' = thumbnail_failures
             /\ exit_code' = -1
             /\ \/ ThumbsRequested /\ pc' = "probe" /\ index' = index
                \/ ~ThumbsRequested /\ pc' = "file" /\ index' = index + 1
        /\ pc = "thumb_wait" =>
             /\ thumbnail_failures' =
                   thumbnail_failures + (IF result'.returncode # 0 THEN 1 ELSE 0)
             /\ conversion_failures' = conversion_failures
             /\ exit_code' = -1
             /\ pc' = "thumb"
             /\ thumb_pos' = thumb_pos + 1
             /\ index' = index ]_vars

C6_Witness ==
    /\ result.kind = "thumb"
    /\ result.returncode = 0
    /\ result.stderr # ""
    /\ conversion_failures = 1
    /\ thumbnail_failures = 1
    /\ thumb_pos = 3
    /\ index = 1

\* A name that ends in .mp4 in any mix of cases, after at least one character.
IsMp4Name(name) ==
    /\ Len(name) > 4
    /\ name[Len(name) - 3] = "."
    /\ name[Len(name) - 2] \in {"m", "M"}
    /\ name[Len(name) - 1] \in {"p", "P"}
    /\ name[Len(name)] = "4"

\* Where an entry is once its link, if it is one, is followed.
ResolvedPath(e) == IF e.kind = "link" THEN e.target ELSE e.path

\* The directory d is the path p or one of the directories above it.
Under(p, d) == \E k \in 0..Len(p) : SubSeq(p, 1, k) = d

ExpectedFiles ==
    { e \in fs :
        /\ e.kind = "file" \/ (e.kind = "link" /\ File(e.target) \in fs)
        /\ Len(e.path) > 1
        /\ e.path[1] = <<"i">>
        /\ args.recursive \/ Len(e.path) = 2
        /\ IsMp4Name(e.path[Len(e.path)])
        /\ ~Under(ResolvedPath(e), args.output_dir) }

\* C7: find_mp4_files returns exactly the files (links to files included)
\* under the input directory, at the top level or at every level when
\* recursive, whose name ends in .mp4 in any case and whose resolved path is
\* not under the output directory, each once, in ascending path order; none
\* of them resolves to a place under the output directory.
C7_Discovery ==
    pc = "found" =>
        /\ {sources[k] : k \in 1..Len(sources)} = {e.path : e \in ExpectedFiles}
        /\ Len(sources) = Cardinality(ExpectedFiles)
        /\ \A j, k \in 1..Len(sources) :
              j < k => PathLess(sources[j], sources[k])
        /\ \A k \in 1..Len(sources) :
              \A e \in fs :
                 e.path = sources[k] => ~Under(ResolvedPath(e), args.output_dir)

C7_Witness ==
    /\ pc = "found"
    /\ args.recursive
    /\ args.output_dir = NestedOut
    /\ File(P_oa) \in fs
    /\ Link(P_l, P_oa) \in fs
    /\ sources = <<P_B, P_a, P_od>>

\* C8: build_thumbnail_points(n) is n points with the indices 1..n in
\* order and the fractions i/(n+1), strictly increasing and strictly between
\* 0 and 1; with n = 3 and a duration of 100 s the timestamps are 25, 50 and
\* 75 s.
C8_Points ==
    pc = "stamp" =>
        LET n == args.thumbnail_count
            pts == thumbnail_points
        IN  /\ Len(pts) = n
            /\ \A i \in 1..n :
                  /\ pts[i].index = i
                  /\ pts[i].num * (n + 1) = i * pts[i].den
                  /\ pts[i].den > 0
                  /\ 0 < pts[i].num
                  /\ pts[i].num < pts[i].den
            /\ \A i \in 1..(n - 1) :
                  pts[i].num * pts[i + 1].den < pts[i + 1].num * pts[i].den
            /\ (n = 3 /\ duration = FNum(100000) /\ thumb_pos > 1) =>
                  timestamp = FNum(25000 * (thumb_pos - 1))

C8_Witness ==
    /\ pc = "stamp"
    /\ args.thumbnail_count = 3
    /\ duration = FNum(100000)
    /\ thumb_pos = 4
    /\ timestamp = FNum(75000)

Phase(kind) ==
    CASE kind = "convert" -> 1 [] kind = "probe" -> 2 [] kind = "thumb" -> 3

\* Event a belongs before event b: an earlier file, or the same file and an
\* earlier step, or the same step and a lower thumbnail index.
EventBefore(a, b) ==
    \/ a.file < b.file
    \/ a.file = b.file /\ Phase(a.kind) < Phase(b.kind)
    \/ a.file = b.file /\ Phase(a.kind) = Phase(b.kind) /\ a.idx < b.idx

InOrder(seq) ==
    \A j, k \in 1..Len(seq) : j < k => EventBefore(seq[j], seq[k])

\* C9: at most one external process runs at a time, and it is the last one
\* started; the processes are started, and the commands printed, file by
\* file in the sorted order of the sources, within a file the conversion
\* before the probe before the thumbnails, the thumbnails by increasing
\* index; nothing of a later file is started while a file is in progress.
C9_Sequential ==
    /\ Cardinality(running) <= 1
    /\ running \subseteq {Len(log)}
    /\ InOrder(log)
    /\ InOrder(printed)
    /\ \A j, k \in 1..Len(sources) : j < k => PathLess(sources[j], sources[k])
    /\ \A k \in 1..Len(log) :
          /\ log[k].file <= index
          /\ log[k].file < index => k \notin running
    /\ \A k \in 1..Len(printed) : printed[k].file <= index
    /\ (pc \in {"convert", "probe", "thumb", "file", "exit"}) => running = {}
    /\ (pc \in {"probe", "probe_wait", "thumb", "thumb_wait"}
          /\ ConversionRequested /\ ~args.dry_run) =>
          CountEvents(log, index, "convert", 0) = 1

C9_Witness ==
    /\ pc = "thumb_wait"
    /\ running = {Len(log)}
    /\ index = 2
    /\ Len(log) = 8
    /\ log[8] = Event(2, "thumb", 2)
    /\ log[1] = Event(1, "convert", 0)

\* C10: without --dry-run nothing is started twice, and at the end of a run
\* every file has had exactly one conversion if conversions are requested,
\* exactly one probe if thumbnails are requested, and exactly one command
\* for each thumbnail index 1..count if its probe succeeded (none
\* otherwise), whatever failed before.
C10_ExactlyOnce ==
    ~args.dry_run =>
        /\ \A k \in 1..Len(log) :
              CountEvents(log, log[k].file, log[k].kind, log[k].idx) = 1
        /\ (pc = "exit" /\ error = "") =>
              \A f \in 1..Len(sources) :
                 /\ CountEvents(log, f, "convert", 0) =
                       (IF ConversionRequested THEN 1 ELSE 0)
                 /\ CountEvents(log, f, "probe", 0) =
                       (IF ThumbsRequested THEN 1 ELSE 0)
                 /\ \A i \in 1..args.thumbnail_count :
                       CountEvents(log, f, "thumb", i) =
                          (IF ThumbsRequested /\ probe_ok[f] = "ok" THEN 1 ELSE 0)
                 /\ Cardinality({k \in 1..Len(log) : log[k].file = f}) =
                       (IF ConversionRequested THEN 1 ELSE 0)
                       + (IF ThumbsRequested THEN 1 ELSE 0)
                       + (IF ThumbsRequested /\ probe_ok[f] = "ok"
                            THEN args.thumbnail_count ELSE 0)

C10_Witness ==
    /\ pc = "exit"
    /\ ~args.dry_run
    /\ Len(sources) = 2
    /\ args.thumbnail_count = 2
    /\ file_failures = <<[conv |-> 1, thumb |-> 2], [conv |-> 0, thumb |-> 0]>>
    /\ Len(log) = 8

====
